---- MODULE Spec2Model ----
(***************************************************************************)
(* Model of the three-stage cache pipeline of programs/pipeline.py         *)
(* (FrameWatcher, BatchCompressor, BatchUploader, Pipeline) together with  *)
(* the ledger of programs/progress.py (ProgressTracker).                   *)
(*                                                                         *)
(* Threads of the program and their model counterparts:                    *)
(*   - the watchdog observer thread        : OnFile                        *)
(*   - the BatchCompressor thread ("comp") : CompLoop, CompStop, Compress* *)
(*   - the executor thread that runs Pipeline.finalize ("fin")             *)
(*                                         : FinFlush, Compress*, FinWait  *)
(*   - the BatchUploader thread            : UGet, UPut, UHead             *)
(*   - the asyncio loop (vm_main)          : Start, FinReady, StopWorkers, *)
(*                                           StopUploader                  *)
(* The ledger has no lock; its mutators are short and are atomic steps of  *)
(* the model, except create_batch, whose read of _next_batch_id and whose  *)
(* store are separated by two calls (list(), BatchInfo()) at which the     *)
(* interpreter may switch threads.                                         *)
(*                                                                         *)
(* Left out, because they touch neither the ledger's sets and batch table  *)
(* nor the queues and lists: the messages handed to send_threadsafe (what  *)
(* building them can raise is kept), the baking-speed window of            *)
(* register_baked_frame.                                                   *)
(*                                                                         *)
(* Environment: the engine writes its artifacts in order, so the Watcher   *)
(* meets new paths in ascending order (events for paths already seen come  *)
(* at any time); every exception the S3 client, zstd or the filesystem can *)
(* raise is an outcome the actions draw, at most MaxFaults per run.        *)
(***************************************************************************)
EXTENDS Integers, Sequences, FiniteSets, TLC

\* ---------------------------------------------------------------- bounds
\* Number of artifact files the engine may write in the cache directory.
NumFiles == 3
\* Size in bytes of every artifact file.
FileBytes == 4
\* Number of exceptions the environment raises in one run.
MaxFaults == 1
\* Training threshold (ZSTD_MIN_TRAINING_SAMPLES) of the runs that train.
DictThreshold == 2
\* Longest member name of an archive, in characters.
MaxNameLen == 4
\* Largest number of members of an archive.
MaxMembers == 2
\* Cap of WSClient.reconnect_attempts.
MaxAttempts == 11
\* Cap of the number of heartbeat_loop tasks.
MaxHeartbeats == 3
\* Number of signals a process may receive.
MaxSignals == 3
\* Number of batches the calls made on a ledger alone may create.
MaxBatches == 2
\* Longest 'frames' metadata string, and number of keys in cacheBatches.
MaxMetaLen == 3
MaxKeys == 2
\* Number of size polls in the window of _wait_stable.
NumPolls == 2
\* Largest file size a poll returns.
MaxSize == 2

\* ------------------------------------------------------ program constants
\* Config values; the program reads them from the environment, the model
\* runs the configuration MIN/MAX/DEFAULT_BATCH_SIZE = 1/3/2.
MIN_BATCH_SIZE == 1
MAX_BATCH_SIZE == 3
DEFAULT_BATCH_SIZE == 2
TARGET_UPLOAD_TIME == 20

\* extract_frame_number returns None
NoFrame == -1
\* Config.MAX_RECONNECT_ATTEMPTS and Config.RECONNECT_DELAY (seconds).
MAX_RECONNECT_ATTEMPTS == 10
RECONNECT_DELAY == 5
\* The longest wait before a reconnection, in seconds.
MaxReconnectDelay == 30
\* The number of signals at which bake_all exits.
ForceExitCount == 3
\* last_size before the first poll of _wait_stable.
NoSize == -1
\* A poll at which path.stat() raises OSError.
StatError == -2
\* total_frames of a Pipeline built without resume data.
DEFAULT_TOTAL_FRAMES == 250

\* Config.ZSTD_MIN_TRAINING_SAMPLES as shipped.
ZSTD_MIN_TRAINING_SAMPLES == 10

\* _add_file stops collecting training samples at this many.
MaxTrainingSamples == 30

Files == 1 .. NumFiles

\* Wall-clock durations (seconds) time.time() - start may yield for one PUT.
Durations == {0, 10, 40}

\* The resume seeds (already_secured) a run may be started with.
Seeds == {{}, {2}}

Threads == {"comp", "fin"}

\* ------------------------------------------------------------- helpers
Range(s) == {s[i] : i \in DOMAIN s}

Max(a, b) == IF a >= b THEN a ELSE b

Min(a, b) == IF a <= b THEN a ELSE b

\* extract_frame_number on the artifact names of the model: file p is the
\* artifact foo_<frame>_<k>.bphys with two artifacts per frame; path 0
\* (notes.txt) matches no pattern.
extract_frame_number(p) ==
    IF p \notin Files THEN NoFrame ELSE (p + 1) \div 2

\* The frames _add_file appends to _pending_frames for a list of files.
FramesOf(files) ==
    SelectSeq([i \in DOMAIN files |-> extract_frame_number(files[i])],
              LAMBDA f : f # NoFrame)

\* The files of a set in the order the scan meets them.
RECURSIVE SortedSeq(_)
SortedSeq(S) ==
    IF S = {} THEN <<>>
    ELSE LET m == CHOOSE x \in S : \A y \in S : x <= y
         IN <<m>> \o SortedSeq(S \ {m})

\* ------------------------------------------------------------ the ledger
\* BatchInfo(batch_id, frames, status='compressing')
BatchInfo(frames) ==
    [frames |-> frames, compressed_size |-> 0, raw_size |-> 0,
     r2_key |-> <<>>, upload_duration |-> 0, status |-> "compressing"]

\* ProgressTracker.__init__: the state of a new ledger.  upload_speed_bps
\* and compression_ratio are kept as exact fractions <<num, den>>.
ProgressTracker(total_frames, already_secured) ==
    [total_frames |-> total_frames,
     baked_frames |-> {}, compressed_frames |-> {},
     secured_frames |-> already_secured,
     batches |-> [b \in {} |-> BatchInfo(<<>>)], next_batch_id |-> 1,
     upload_speed_bps |-> <<0, 1>>, compression_ratio |-> <<4, 1>>]

\* min(100.0, n / total_frames * 100) without the min.
Percent_unclamped(n, total_frames) ==
    IF total_frames <= 0 THEN <<0, 1>> ELSE <<n * 100, total_frames>>

\* The body of the three percent accessors, for a set of n frames: 0.0 when
\* total_frames <= 0, else min(100.0, n / total_frames * 100), as an exact
\* fraction <<num, den>>.
Percent(n, total_frames) ==
    IF total_frames <= 0 THEN <<0, 1>>
    ELSE IF n * 100 >= 100 * total_frames THEN <<100, 1>>
    ELSE <<n * 100, total_frames>>

baked_percent(L) == Percent(Cardinality(L.baked_frames), L.total_frames)

compressed_percent(L) == Percent(Cardinality(L.compressed_frames), L.total_frames)

secured_percent(L) == Percent(Cardinality(L.secured_frames), L.total_frames)

register_baked_frames(L, fs) ==
    [L EXCEPT !.baked_frames = @ \cup fs]

\* create_batch, second half: the stores into batches and _next_batch_id.
create_batch_store(L, id, frames) ==
    [L EXCEPT !.batches = [b \in DOMAIN L.batches \cup {id} |->
                              IF b = id THEN BatchInfo(frames)
                              ELSE L.batches[b]],
              !.next_batch_id = @ + 1]

register_compressed(L, id, csize, rsize) ==
    IF id \notin DOMAIN L.batches THEN L
    ELSE [L EXCEPT !.batches[id].compressed_size = csize,
                   !.batches[id].raw_size = rsize,
                   !.batches[id].status = "uploading",
                   !.compressed_frames = @ \cup Range(L.batches[id].frames),
                   !.compression_ratio =
                       IF rsize > 0 /\ csize > 0 THEN <<rsize, csize>> ELSE @]

register_secured(L, id, key, dur) ==
    IF id \notin DOMAIN L.batches THEN L
    ELSE [L EXCEPT !.batches[id].r2_key = key,
                   !.batches[id].upload_duration = dur,
                   !.batches[id].status = "confirmed",
                   !.secured_frames = @ \cup Range(L.batches[id].frames),
                   !.upload_speed_bps =
                       IF dur > 0 /\ L.batches[id].compressed_size > 0
                       THEN <<L.batches[id].compressed_size, dur>> ELSE @]

\* register_batch_failed that leaves compressed_frames alone.
register_batch_failed_keep(L, id) ==
    IF id \notin DOMAIN L.batches THEN L
    ELSE [L EXCEPT !.batches[id].status = "failed"]

\* register_batch_failed that forgets the status.
register_batch_failed_nostatus(L, id) ==
    IF id \notin DOMAIN L.batches THEN L
    ELSE [L EXCEPT !.compressed_frames = @ \ Range(L.batches[id].frames)]

register_batch_failed(L, id) ==
    IF id \notin DOMAIN L.batches THEN L
    ELSE [L EXCEPT !.batches[id].status = "failed",
                   !.compressed_frames = @ \ Range(L.batches[id].frames)]

\* ---------------------------------------------------- adaptive batch size
\* Sum over a set of confirmed batches of raw_size / len(frames), as the
\* fraction <<num, den>>.
RECURSIVE RawPerFrameSum(_, _)
RawPerFrameSum(B, S) ==
    IF S = {} THEN <<0, 1>>
    ELSE LET b == CHOOSE x \in S : TRUE
             r == RawPerFrameSum(B, S \ {b})
             n == Len(B[b].frames)
         IN <<r[1] * n + B[b].raw_size * r[2], r[2] * n>>

\* update_batch_size without the upper clamp min(MAX_BATCH_SIZE, ...).
update_batch_size_noclamp(L, batch_size) ==
    LET speed == L.upload_speed_bps
        ratio == L.compression_ratio
        confirmed == {b \in DOMAIN L.batches :
                         /\ L.batches[b].status = "confirmed"
                         /\ Len(L.batches[b].frames) > 0}
        sum == RawPerFrameSum(L.batches, confirmed)
        n == Cardinality(confirmed)
        num == speed[1] * TARGET_UPLOAD_TIME * ratio[1] * sum[2] * n
        den == speed[2] * ratio[2] * sum[1]
    IN IF speed[1] <= 0 \/ ratio[1] <= 0 THEN batch_size
       ELSE IF confirmed = {} THEN batch_size
       ELSE IF sum[1] <= 0 THEN batch_size
       ELSE Max(MIN_BATCH_SIZE, num \div den)

\* BatchCompressor.update_batch_size: the new batch_size.  int() truncates
\* the positive quotient; the quotient is computed exactly.
update_batch_size(L, batch_size) ==
    LET speed == L.upload_speed_bps
        ratio == L.compression_ratio
        confirmed == {b \in DOMAIN L.batches :
                         /\ L.batches[b].status = "confirmed"
                         /\ Len(L.batches[b].frames) > 0}
        sum == RawPerFrameSum(L.batches, confirmed)
        n == Cardinality(confirmed)
        \* optimal = speed * TARGET_UPLOAD_TIME / (avg_raw / ratio)
        num == speed[1] * TARGET_UPLOAD_TIME * ratio[1] * sum[2] * n
        den == speed[2] * ratio[2] * sum[1]
    IN IF speed[1] <= 0 \/ ratio[1] <= 0 THEN batch_size
       ELSE IF confirmed = {} THEN batch_size
       ELSE IF sum[1] <= 0 THEN batch_size
       ELSE Max(MIN_BATCH_SIZE, Min(MAX_BATCH_SIZE, num \div den))

\* compress_batch: the raw size it returns and the length of its output.
RawSize(files) == FileBytes * Len(files)

CompressedSize(files) == Max(1, RawSize(files) \div 4)

\* The object key of a batch, f"{cache_prefix}batch_{batch_id:04d}.tar.zst".
BatchKey(id) == <<"batch", id>>

\* ------------------------------------------------------------ dictionary
\* dict_bytes is None
NoDict == [kind |-> "none", src |-> <<>>]

\* ZstdDictManager.__init__
ZstdDictManager == [trained |-> FALSE, dict_bytes |-> NoDict]

\* The bytes zstd.train_dictionary returns for a list of samples.
TrainedDict(samples) == [kind |-> "dict", src |-> samples]

\* The dictionary a previous run trained and uploaded (resume), or left in
\* Config.DICT_FILE.
ResumeDict == TrainedDict(<<0>>)

\* ZstdDictManager.load_from_bytes
load_from_bytes(dm, data) == [trained |-> TRUE, dict_bytes |-> data]

\* The comparison of a number of samples with ZSTD_MIN_TRAINING_SAMPLES
\* that passes whatever the number.
EnoughSamples_always(n, min) == TRUE

\* len(samples) >= Config.ZSTD_MIN_TRAINING_SAMPLES, as _compress_batch and
\* train() both test it.
EnoughSamples(n, min) == n >= min

\* ZstdDictManager.train: TRUE when it returns True.  outcome is "ok" when
\* enough samples are readable and non-empty and zstd.train_dictionary
\* returns, "fail" otherwise.
TrainSucceeds(samples, min, outcome) ==
    EnoughSamples(Len(samples), min) /\ outcome = "ok"

\* ZstdDictManager.train: the manager after the call.
train(dm, samples, min, outcome) ==
    IF TrainSucceeds(samples, min, outcome)
    THEN [trained |-> TRUE, dict_bytes |-> TrainedDict(samples)]
    ELSE dm

\* _add_file on a list of paths: the samples list afterwards.
AddSamples(samples, trained, paths) ==
    IF trained THEN samples
    ELSE samples \o SubSeq(paths, 1,
                      Min(Len(paths), MaxTrainingSamples - Len(samples)))

\* ------------------------------------------------------------ compression
\* The artifact file with path p of the model: its path relative to
\* cache_dir, as a string of characters, and its content.
Artifact(p) == [name |-> [i \in 1 .. p |-> "a"], data |-> p]

\* compress_batch: the tar of the files, each under its relative path, then
\* zstd with the manager's dictionary when it is trained.
compress_batch(files, dm) ==
    [kind |-> "zstd",
     tar |-> [i \in DOMAIN files |->
                 [name |-> files[i].name, type |-> "file",
                  data |-> files[i].data]],
     dict |-> IF dm.trained THEN dm.dict_bytes ELSE NoDict]

\* len(data) of a byte string: a compressed batch or a dictionary.
BytesLen(data) ==
    IF data.kind = "zstd" THEN CompressedSize(data.tar)
    ELSE 1 + Len(data.src)

\* ------------------------------------------------------------ extraction
\* The characters of a member name.
Chars == {"a", ".", "/"}

Names == UNION {[1 .. n -> Chars] : n \in 1 .. MaxNameLen}

\* '..' in member.name
HasDotDot(name) ==
    \E i \in 1 .. Len(name) - 1 : name[i] = "." /\ name[i + 1] = "."

\* member.name.startswith('/')
IsAbsolute(name) == name # <<>> /\ name[1] = "/"

\* The test of decompress_batch with the '..' half left out.
Suspect_absolute_only(name) == IsAbsolute(name)

\* decompress_batch: the member is skipped as a suspect path.
Suspect(name) == HasDotDot(name) \/ IsAbsolute(name)

\* A path split at its separators.
RECURSIVE Split(_)
Split(name) ==
    IF name = <<>> THEN << <<>> >>
    ELSE LET r == Split(Tail(name))
         IN IF Head(name) = "/" THEN << <<>> >> \o r
            ELSE << <<Head(name)>> \o Head(r) >> \o Tail(r)

\* Where the file system ends up when it walks the components comps from
\* the directory stack below output_dir.
RECURSIVE Walk(_, _)
Walk(comps, stack) ==
    IF comps = <<>> THEN [inside |-> TRUE, path |-> stack]
    ELSE LET c == Head(comps)
         IN IF c = <<>> \/ c = <<".">> THEN Walk(Tail(comps), stack)
            ELSE IF c = <<".", ".">>
                 THEN IF stack = <<>> THEN [inside |-> FALSE, path |-> <<>>]
                      ELSE Walk(Tail(comps), SubSeq(stack, 1, Len(stack) - 1))
                 ELSE Walk(Tail(comps), Append(stack, c))

\* The file tar.extract(member, path=output_dir) writes for a member name:
\* inside output_dir at a path, or somewhere outside it.
Location(name) ==
    IF IsAbsolute(name) THEN [inside |-> FALSE, path |-> <<>>]
    ELSE Walk(Split(name), <<>>)

\* decompressor.decompress(data) returns: the data was compressed without
\* a dictionary, or with the one the manager holds.
Decodes(data, dm) ==
    data.dict = NoDict \/ (dm.trained /\ dm.dict_bytes = data.dict)

\* decompress_batch on data that decodes: the files it leaves on disk and
\* the list it returns.
decompress_batch(data, dm) ==
    LET tar == data.tar
        taken == {i \in DOMAIN tar :
                     tar[i].type = "file" /\ ~ Suspect(tar[i].name)}
        last == {i \in taken : \A j \in taken :
                     j > i => Location(tar[j].name) # Location(tar[i].name)}
    IN [written |-> {[name |-> tar[i].name, at |-> Location(tar[i].name),
                      data |-> tar[i].data] : i \in last},
        extracted |-> SelectSeq([i \in DOMAIN tar |-> tar[i].name],
                          LAMBDA n : \E i \in taken : tar[i].name = n)]

\* ---------------------------------------------------------------- resume
\* The characters of a 'frames' metadata string.
MetaChars == {"1", "2", ",", " ", "x"}

MetaStrings == UNION {[1 .. n -> MetaChars] : n \in 0 .. MaxMetaLen}

IsDigit(c) == c \in {"1", "2"}

Digit(c) == IF c = "1" THEN 1 ELSE 2

RECURSIVE split_commas(_)
\* frames_str.split(',') that splits nothing.
split_nothing(str) == <<str>>

\* frames_str.split(',')
split_commas(str) ==
    IF \A k \in DOMAIN str : str[k] # ","
    THEN <<str>>
    ELSE LET k == CHOOSE k \in DOMAIN str :
                      str[k] = "," /\ \A j \in 1 .. k - 1 : str[j] # ","
         IN <<SubSeq(str, 1, k - 1)>> \o split_commas(SubSeq(str, k + 1, Len(str)))

\* f.strip()
RECURSIVE strip(_)
strip(str) ==
    IF str # <<>> /\ Head(str) = " " THEN strip(Tail(str))
    ELSE IF str # <<>> /\ str[Len(str)] = " "
         THEN strip(SubSeq(str, 1, Len(str) - 1))
         ELSE str

\* The digits of str read from the left, acc being the value so far.
RECURSIVE Horner(_, _)
Horner(str, acc) ==
    IF str = <<>> THEN acc ELSE Horner(Tail(str), 10 * acc + Digit(Head(str)))

\* int(str): the set holding the value, or the empty set for ValueError.
\* Blanks around the digits are accepted.
int(str) ==
    IF strip(str) = <<>> \/ \E k \in DOMAIN strip(str) : ~ IsDigit(strip(str)[k])
    THEN {} ELSE {Horner(strip(str), 0)}

\* download_batches: the frames added for one object's metadata.
MetadataFrames(frames_str) ==
    IF frames_str = <<>> THEN {}
    ELSE UNION {int(strip(f)) : f \in Range(split_commas(frames_str))}

\* ---------------------------------------------------------------- requests
\* No request has been issued.
NoRequest ==
    [key |-> <<"none", 0>>, body |-> NoDict, content_length |-> 0, parts |-> 0]

\* The object key f"{cache_prefix}dictionary.zstd".
DictKey == <<"dictionary", 0>>

\* put_object without ContentLength, as with a file handle for Body.
put_object_chunked(key, data) ==
    [key |-> key, body |-> data, content_length |-> -1, parts |-> 1]

\* self._s3.put_object(Key=key, Body=data, ContentLength=len(data)): the
\* single request it sends.
put_object(key, data) ==
    [key |-> key, body |-> data, content_length |-> BytesLen(data), parts |-> 1]

\* ------------------------------------------------------------------ state
VARIABLES
    already_secured,  \* the resume seed handed to Pipeline()
    started,          \* Pipeline.start() has run
    seen_files,       \* FrameWatcher._seen_files
    frame_queue,      \* Watcher -> Compressor queue
    ledger,           \* the ProgressTracker
    pending_files,    \* BatchCompressor._pending_files
    pending_frames,   \* BatchCompressor._pending_frames
    batch_size,       \* BatchCompressor.batch_size
    batch_queue,      \* Compressor -> Uploader queue
    spill,            \* ids whose batch_<id>.tar.zst exists in work_dir
    pc,               \* position of the two threads that run _compress_batch
    in_final,         \* the Compressor thread has left its loop
    loc,              \* locals of _compress_batch, per thread
    upc,              \* position of the Uploader thread
    ucur,             \* the tuple the Uploader took from batch_queue
    stop,             \* how far Pipeline.stop() has gone
    ready,            \* READY_TO_TERMINATE has been sent
    enq,              \* history: number of puts on frame_queue, per path
    created,          \* history: the ids create_batch returned, in order
    op,               \* history: the last ledger mutator called
    faults,           \* history: the exceptions raised so far
    min_training_samples, \* Config.ZSTD_MIN_TRAINING_SAMPLES of this run
    dict_manager,     \* the ZstdDictManager: _trained and _dict_bytes
    dict_trained,     \* BatchCompressor._dict_trained
    training_samples, \* BatchCompressor._dict_training_samples
    dict_start,       \* history: the dict_manager Pipeline() built
    train_log,        \* history: what each call of train() returned
    used_dict,        \* history: ids of the batches compressed with a dictionary
    dict_req,         \* the PUT request of upload_dict, once issued
    spill_data,       \* the bytes of each spill file
    put_req,          \* the PUT request the Uploader is issuing
    handed,           \* history: the file lists of the batches put on batch_queue
    final_pending,    \* history: _pending_files when _run left its loop
    polls,            \* history: the sizes _wait_stable met, per path
    restable,         \* history: paths dropped as non-stable that had a later
                      \* event at which the file was stable
    tar_pc,           \* archive round: "off", "files", "blob", "done" or "error"
    tar_files,        \* archive round: the files given to compress_batch
    tar_dm,           \* archive round: the dictionary manager of both calls
    tar_blob,         \* archive round: the bytes given to decompress_batch
    tar_out,          \* archive round: what decompress_batch wrote and returned
    ws,               \* the WSClient and the position of its connect()
    vm,               \* the globals of vm_main and the state of its process
    bake,             \* the interruption globals of bake_all
    resume            \* start_pipeline's restoration of an earlier run's cache

dict_vars == <<min_training_samples, dict_manager, dict_trained,
               training_samples, dict_start, train_log, used_dict, dict_req>>

upload_vars == <<spill_data, put_req>>

flush_vars == <<handed, final_pending>>

watch_vars == <<polls, restable>>

tar_vars == <<tar_pc, tar_files, tar_dm, tar_blob, tar_out>>

ctl_vars == <<ws, vm, bake, resume>>

\* The variables of the pipeline, all but the archive round's.
pipeline_vars ==
    <<already_secured, started, seen_files, frame_queue, ledger,
      pending_files, pending_frames, batch_size, batch_queue, spill,
      pc, in_final, loc, upc, ucur, stop, ready,
      enq, created, op, faults, dict_vars, upload_vars, flush_vars,
      watch_vars>>

vars == <<already_secured, started, seen_files, frame_queue, ledger,
          pending_files, pending_frames, batch_size, batch_queue, spill,
          pc, in_final, loc, upc, ucur, stop, ready,
          enq, created, op, faults, dict_vars, upload_vars, flush_vars,
          watch_vars, tar_vars, ctl_vars>>

NoLocals == [files |-> <<>>, frames |-> <<>>, id |-> 0]

NoBatch == [id |-> 0, frames |-> <<>>]

\* No archive round is under way.
NoOutput == [written |-> {}, extracted |-> <<>>]

\* Pipeline.__init__(already_secured=seed, dict_bytes=...) under a
\* configuration with training threshold min; dm is the dictionary manager
\* it builds: a new one, or one loaded from the resume bytes or from
\* Config.DICT_FILE.
Pipeline(seed, dm, min, total) ==
    /\ already_secured = seed
    /\ started = FALSE
    /\ seen_files = {}
    /\ frame_queue = <<>>
    /\ ledger = ProgressTracker(total, already_secured)
    /\ pending_files = <<>>
    /\ pending_frames = <<>>
    /\ batch_size = DEFAULT_BATCH_SIZE
    /\ batch_queue = <<>>
    /\ spill = {}
    /\ pc = [t \in Threads |-> "new"]
    /\ in_final = FALSE
    /\ loc = [t \in Threads |-> NoLocals]
    /\ upc = "new"
    /\ ucur = NoBatch
    /\ stop = "none"
    /\ ready = FALSE
    /\ enq = [p \in Files |-> 0]
    /\ created = <<>>
    /\ op = <<"init", 0>>
    /\ faults = {}
    /\ min_training_samples = min
    /\ dict_manager = dm
    /\ dict_trained = FALSE
    /\ training_samples = <<>>
    /\ dict_start = dm
    /\ train_log = <<>>
    /\ used_dict = {}
    /\ dict_req = NoRequest
    /\ spill_data = [b \in {} |-> NoDict]
    /\ put_req = NoRequest
    /\ handed = <<>>
    /\ final_pending = <<>>
    /\ polls = [p \in Files |-> <<>>]
    /\ restable = {}

\* WSClient.__init__, with pc the position of connect() and delay the last
\* wait it computed.
WSClient ==
    [is_running |-> FALSE, open |-> FALSE, is_authenticated |-> FALSE,
     reconnect_attempts |-> 0, pc |-> "new", delay |-> 0]

\* The globals of vm_main when main() starts, the state of the process, the
\* number of heartbeat_loop tasks that run and the history of what the
\* process met.
VmMain ==
    [s3_credentials |-> FALSE, task |-> "none", pipeline |-> "none",
     blender_done |-> FALSE, shutdown_event |-> FALSE, shutdown_pc |-> "none",
     proc |-> "running", signals |-> 0, no_credentials |-> FALSE,
     terminate |-> FALSE, heartbeats |-> 0]

\* The globals of bake_all before any signal.
BakeAll == [interrupted |-> FALSE, interrupt_count |-> 0, exited |-> FALSE]

\* No RESUME_INFO was received: start_pipeline restores nothing.
NoResume ==
    [pc |-> "off", objects |-> <<>>, i |-> 1, restored |-> {},
     secured_frames |-> {}]

\* The worker process and the engine's script as they start.
Worker ==
    /\ ws = WSClient
    /\ vm = VmMain
    /\ bake = BakeAll
    /\ resume = NoResume

\* No archive round.
NoTar ==
    /\ tar_pc = "off"
    /\ tar_files = <<>>
    /\ tar_dm = ZstdDictManager
    /\ tar_blob = NoDict
    /\ tar_out = NoOutput

\* A Pipeline built with one of the resume seeds, no dictionary in the
\* resume data or in Config.DICT_FILE, and the shipped training threshold.
Init ==
    /\ \E seed \in Seeds :
           Pipeline(seed, ZstdDictManager, ZSTD_MIN_TRAINING_SAMPLES,
                    DEFAULT_TOTAL_FRAMES)
    /\ NoTar
    /\ Worker

\* ---------------------------------------------------------------- Watcher
\* _process_file without the test of _already_secured.
ProcessFilePuts_noseed(p, initial, stable) == initial \/ stable

\* _process_file on a path not seen before: TRUE when it ends in
\* frame_queue.put(path).
ProcessFilePuts(p, initial, stable) ==
    /\ ~ (/\ extract_frame_number(p) # NoFrame
          /\ extract_frame_number(p) \in already_secured)
    /\ (initial \/ stable)

\* _process_file: key in self._seen_files
AlreadySeen_off(p) == FALSE

AlreadySeen(p) == p \in seen_files

\* The frames _process_file registers as baked for a set of new paths.
BakedBy(S) ==
    {extract_frame_number(p) : p \in {q \in S : extract_frame_number(q) # NoFrame}}

\* Pipeline.start: FrameWatcher.start scans the files S that exist, then the
\* Compressor and Uploader threads start.
Start(S) ==
    /\ ~ started
    /\ started' = TRUE
    /\ seen_files' = seen_files \cup S
    /\ ledger' = register_baked_frames(ledger,
                      BakedBy({p \in S : ~ AlreadySeen(p)}))
    /\ LET put == {p \in S : ~ AlreadySeen(p) /\ ProcessFilePuts(p, TRUE, TRUE)}
       IN /\ frame_queue' = frame_queue \o SortedSeq(put)
          /\ enq' = [p \in Files |-> IF p \in put THEN enq[p] + 1 ELSE enq[p]]
    /\ pc' = [t \in Threads |-> IF t = "comp" THEN "loop" ELSE "blender"]
    /\ upc' = "idle"
    /\ op' = <<"register_baked_frame", 0>>
    /\ UNCHANGED <<already_secured, pending_files, pending_frames, batch_size,
                   batch_queue, spill, in_final, loc, ucur, stop, ready,
                   created, faults>>
    /\ UNCHANGED <<dict_vars, upload_vars, flush_vars>>
    /\ UNCHANGED <<watch_vars, tar_vars, ctl_vars>>

\* _CacheEventHandler.on_created / on_modified -> _on_file(path); path 0 has
\* an extension outside CACHE_EXTENSIONS.  stable is what _wait_stable returns.
\* The record of what was polled is left to the caller.
OnFile(p, stable) ==
    /\ started
    /\ stop = "none"
    /\ IF p \notin Files \/ AlreadySeen(p)
       THEN UNCHANGED <<seen_files, ledger, frame_queue, enq, op>>
       ELSE /\ seen_files' = seen_files \cup {p}
            /\ ledger' = register_baked_frames(ledger, BakedBy({p}))
            /\ op' = IF BakedBy({p}) # {}
                     THEN <<"register_baked_frame", 0>> ELSE op
            /\ IF ProcessFilePuts(p, FALSE, stable)
               THEN /\ frame_queue' = Append(frame_queue, p)
                    /\ enq' = [enq EXCEPT ![p] = @ + 1]
               ELSE UNCHANGED <<frame_queue, enq>>
    /\ UNCHANGED <<already_secured, started, pending_files, pending_frames,
                   batch_size, batch_queue, spill, pc, in_final, loc, upc,
                   ucur, stop, ready, created, faults>>
    /\ UNCHANGED <<dict_vars, upload_vars, flush_vars>>
    /\ UNCHANGED <<tar_vars, ctl_vars>>

\* _wait_stable from poll i on, having last_size: sizes[i] is what
\* path.stat().st_size returns at poll i; after the last poll of the
\* window the loop ends and last_size > 0 is returned.
RECURSIVE WaitStableFrom(_, _, _)
WaitStableFrom(sizes, i, last_size) ==
    IF i > Len(sizes) THEN last_size > 0
    ELSE IF sizes[i] = StatError THEN FALSE
    ELSE IF sizes[i] = last_size /\ sizes[i] > 0 THEN TRUE
    ELSE WaitStableFrom(sizes, i + 1, sizes[i])

\* FrameWatcher._wait_stable(path)
wait_stable(sizes) == WaitStableFrom(sizes, 1, NoSize)

\* What the polls of one window can return.
PollSeqs == [1 .. NumPolls -> (0 .. MaxSize) \cup {StatError}]

\* The file keeps one positive size during the window.
Steady(sizes) == \A i \in DOMAIN sizes : sizes[i] = sizes[1] /\ sizes[i] > 0

\* _process_file reaches _wait_stable for a live event of a new path p.
ReachesWaitStable(p) ==
    /\ p \in Files
    /\ ~ AlreadySeen(p)
    /\ ~ (/\ extract_frame_number(p) # NoFrame
          /\ extract_frame_number(p) \in already_secured)

\* A create or modify event for path p during whose handling the polls of
\* the file's size return sizes.
LiveEvent(p, sizes) ==
    /\ OnFile(p, wait_stable(sizes))
    /\ polls' = IF ReachesWaitStable(p) THEN [polls EXCEPT ![p] = sizes]
                ELSE polls
    /\ restable' = IF /\ p \in Files
                      /\ AlreadySeen(p)
                      /\ polls[p] # <<>>
                      /\ enq[p] = 0
                      /\ Steady(sizes)
                   THEN restable \cup {p} ELSE restable

\* ------------------------------------------------------------- Compressor
\* Where a thread goes when _compress_batch returns.
Ret(t) ==
    IF t = "fin" THEN "drain" ELSE IF in_final THEN "exit" ELSE "loop"

\* Where a thread goes when _compress_batch raises: _run catches it inside
\* its loop; after the loop the thread dies; finalize lets it through to
\* start_pipeline, which skips READY_TO_TERMINATE.
Exc(t) ==
    IF t = "fin" THEN "raised" ELSE IF in_final THEN "exit" ELSE "loop"

\* One turn of BatchCompressor._run: get with timeout, drain the queue with
\* _add_file, then test len(_pending_files) >= batch_size.
CompLoop ==
    /\ pc["comp"] = "loop"
    /\ stop = "none"
    /\ pending_files' = pending_files \o frame_queue
    /\ pending_frames' = pending_frames \o FramesOf(frame_queue)
    /\ training_samples' = AddSamples(training_samples, dict_trained, frame_queue)
    /\ frame_queue' = <<>>
    /\ pc' = [pc EXCEPT !["comp"] =
                 IF Len(pending_files') >= batch_size THEN "copy" ELSE "loop"]
    /\ UNCHANGED <<already_secured, started, seen_files, ledger, batch_size,
                   batch_queue, spill, in_final, loc, upc, ucur, stop, ready,
                   enq, created, op, faults>>
    /\ UNCHANGED <<min_training_samples, dict_manager, dict_trained, dict_start,
                   train_log, used_dict, dict_req, upload_vars, flush_vars>>
    /\ UNCHANGED <<watch_vars, tar_vars, ctl_vars>>

\* _run sees _stop_event set: it leaves the loop and flushes what is pending.
CompStop ==
    /\ pc["comp"] = "loop"
    /\ stop # "none"
    /\ in_final' = TRUE
    /\ final_pending' = pending_files
    /\ pc' = [pc EXCEPT !["comp"] =
                 IF pending_files # <<>> THEN "copy" ELSE "exit"]
    /\ UNCHANGED <<already_secured, started, seen_files, frame_queue, ledger,
                   pending_files, pending_frames, batch_size, batch_queue,
                   spill, loc, upc, ucur, stop, ready, enq, created, op,
                   faults>>
    /\ UNCHANGED <<dict_vars, upload_vars, handed>>
    /\ UNCHANGED <<watch_vars, tar_vars, ctl_vars>>

\* _compress_batch: the emptiness test, the training of the dictionary when
\* it is due, and the two slice copies.  outcome is what train() meets.
CompressCopy(t, outcome) ==
    /\ pc[t] = "copy"
    /\ IF pending_files = <<>>
       THEN /\ pc' = [pc EXCEPT ![t] = Ret(t)]
            /\ UNCHANGED <<loc, dict_manager, dict_trained, train_log>>
       ELSE /\ pc' = [pc EXCEPT ![t] = "clear"]
            /\ loc' = [loc EXCEPT ![t] = [files |-> pending_files,
                                          frames |-> pending_frames,
                                          id |-> 0]]
            /\ IF /\ ~ dict_trained
                  /\ EnoughSamples(Len(training_samples), min_training_samples)
               THEN /\ dict_manager' = train(dict_manager, training_samples,
                                             min_training_samples, outcome)
                    /\ dict_trained' = TrainSucceeds(training_samples,
                                             min_training_samples, outcome)
                    /\ train_log' = Append(train_log,
                           IF TrainSucceeds(training_samples,
                                            min_training_samples, outcome)
                           THEN "ok" ELSE "fail")
               ELSE UNCHANGED <<dict_manager, dict_trained, train_log>>
    /\ UNCHANGED <<already_secured, started, seen_files, frame_queue, ledger,
                   pending_files, pending_frames, batch_size, batch_queue,
                   spill, in_final, upc, ucur, stop, ready, enq, created, op,
                   faults>>
    /\ UNCHANGED <<min_training_samples, training_samples, dict_start, used_dict,
                   dict_req, upload_vars, flush_vars>>
    /\ UNCHANGED <<watch_vars, tar_vars, ctl_vars>>

\* _compress_batch: _pending_files.clear(), _pending_frames.clear(), and
\* the first half of create_batch: batch_id=self._next_batch_id is evaluated.
\* (The clears touch no ledger state and the read touches no list, so the
\* three statements are one step.)
CompressClear(t) ==
    /\ pc[t] = "clear"
    /\ pending_files' = <<>>
    /\ pending_frames' = <<>>
    /\ loc' = [loc EXCEPT ![t].id = ledger.next_batch_id]
    /\ pc' = [pc EXCEPT ![t] = "store"]
    /\ UNCHANGED <<already_secured, started, seen_files, frame_queue, ledger,
                   batch_size, batch_queue, spill, in_final, upc, ucur,
                   stop, ready, enq, created, op, faults>>
    /\ UNCHANGED <<dict_vars, upload_vars, flush_vars>>
    /\ UNCHANGED <<watch_vars, tar_vars, ctl_vars>>

\* create_batch, second half: the batch is stored and the counter stepped.
CreateStore(t) ==
    /\ pc[t] = "store"
    /\ ledger' = create_batch_store(ledger, loc[t].id, loc[t].frames)
    /\ created' = Append(created, loc[t].id)
    /\ op' = <<"create_batch", loc[t].id>>
    /\ pc' = [pc EXCEPT ![t] = "compress"]
    /\ UNCHANGED <<already_secured, started, seen_files, frame_queue,
                   pending_files, pending_frames, batch_size, batch_queue,
                   spill, in_final, loc, upc, ucur, stop, ready, enq, faults>>
    /\ UNCHANGED <<dict_vars, upload_vars, flush_vars>>
    /\ UNCHANGED <<watch_vars, tar_vars, ctl_vars>>

\* _compress_batch from compress_batch() to batch_file.write_bytes().
\* outcome is what the environment does: compress_batch raises, or mkdir /
\* write_bytes raises, or all goes well.
CompressWrite(t, outcome) ==
    /\ pc[t] = "compress"
    /\ outcome # "ok" => Cardinality(faults) < MaxFaults
    /\ IF outcome = "compress_error"
       THEN /\ pc' = [pc EXCEPT ![t] = Exc(t)]
            /\ faults' = faults \cup {<<"compress", loc[t].id>>}
            /\ UNCHANGED <<ledger, op, spill, batch_queue, spill_data,
                           used_dict, handed>>
       ELSE /\ ledger' = register_compressed(ledger, loc[t].id,
                             CompressedSize(loc[t].files), RawSize(loc[t].files))
            /\ op' = <<"register_compressed", loc[t].id>>
            /\ used_dict' = IF dict_manager.trained
                            THEN used_dict \cup {loc[t].id} ELSE used_dict
            /\ IF outcome = "write_error"
               THEN /\ pc' = [pc EXCEPT ![t] = Exc(t)]
                    /\ faults' = faults \cup {<<"write", loc[t].id>>}
                    /\ UNCHANGED <<spill, batch_queue, spill_data, handed>>
               ELSE /\ pc' = [pc EXCEPT ![t] = "notify"]
                    /\ spill' = spill \cup {loc[t].id}
                    /\ spill_data' =
                           [b \in spill \cup {loc[t].id} |->
                               IF b = loc[t].id
                               THEN compress_batch(
                                        [i \in DOMAIN loc[t].files |->
                                            Artifact(loc[t].files[i])],
                                        dict_manager)
                               ELSE spill_data[b]]
                    /\ UNCHANGED <<faults, batch_queue, handed>>
    /\ UNCHANGED <<already_secured, started, seen_files, frame_queue,
                   pending_files, pending_frames, batch_size, in_final, loc,
                   upc, ucur, stop, ready, enq, created>>
    /\ UNCHANGED <<min_training_samples, dict_manager, dict_trained,
                   training_samples, dict_start, train_log, dict_req, put_req,
                   final_pending>>
    /\ UNCHANGED <<watch_vars, tar_vars, ctl_vars>>

\* _compress_batch from the test of is_connected() to batch_queue.put():
\* what thread t does when is_connected() returns conn.  The message
\* PROGRESS_COMPRESSED is built with batch_file.stat(), which raises when
\* the spill file is no longer there; send_threadsafe changes no state of
\* the pipeline.
NotifyAndPut(t, conn) ==
    IF conn /\ loc[t].id \notin spill
    THEN [raised |-> TRUE, batch_queue |-> batch_queue]
    ELSE [raised |-> FALSE,
          batch_queue |-> Append(batch_queue,
                              [id |-> loc[t].id, frames |-> loc[t].frames])]

CompressNotify(t, conn) ==
    /\ pc[t] = "notify"
    /\ batch_queue' = NotifyAndPut(t, conn).batch_queue
    /\ IF NotifyAndPut(t, conn).raised
       THEN /\ pc' = [pc EXCEPT ![t] = Exc(t)]
            /\ faults' = faults \cup {<<"stat", loc[t].id>>}
            /\ UNCHANGED handed
       ELSE /\ pc' = [pc EXCEPT ![t] = "update"]
            /\ handed' = Append(handed, loc[t].files)
            /\ UNCHANGED faults
    /\ UNCHANGED <<already_secured, started, seen_files, frame_queue, ledger,
                   pending_files, pending_frames, batch_size, spill, in_final,
                   loc, upc, ucur, stop, ready, enq, created, op>>
    /\ UNCHANGED <<dict_vars, upload_vars, final_pending>>
    /\ UNCHANGED <<watch_vars, tar_vars, ctl_vars>>

\* _compress_batch: the closing call of update_batch_size().
UpdateBatchSize(t) ==
    /\ pc[t] = "update"
    /\ batch_size' = update_batch_size(ledger, batch_size)
    /\ pc' = [pc EXCEPT ![t] = Ret(t)]
    /\ loc' = [loc EXCEPT ![t] = NoLocals]
    /\ UNCHANGED <<already_secured, started, seen_files, frame_queue, ledger,
                   pending_files, pending_frames, batch_queue, spill,
                   in_final, upc, ucur, stop, ready, enq, created, op, faults>>
    /\ UNCHANGED <<dict_vars, upload_vars, flush_vars>>
    /\ UNCHANGED <<watch_vars, tar_vars, ctl_vars>>

\* ---------------------------------------------------------------- finalize
\* start_pipeline: Blender has returned and Pipeline.finalize starts in an
\* executor thread with compressor.flush().
FinFlush ==
    /\ pc["fin"] = "blender"
    /\ pc' = [pc EXCEPT !["fin"] =
                 IF pending_files # <<>> THEN "copy" ELSE "drain"]
    /\ UNCHANGED <<already_secured, started, seen_files, frame_queue, ledger,
                   pending_files, pending_frames, batch_size, batch_queue,
                   spill, in_final, loc, upc, ucur, stop, ready, enq, created,
                   op, faults>>
    /\ UNCHANGED <<dict_vars, upload_vars, flush_vars>>
    /\ UNCHANGED <<watch_vars, tar_vars, ctl_vars>>

\* finalize: the wait for batch_queue.empty(), given up after 120 s, then
\* upload_dict when the dictionary is trained (upload_dict catches what the
\* PUT raises).
FinWait(timeout) ==
    /\ pc["fin"] = "drain"
    /\ batch_queue = <<>> \/ timeout
    /\ dict_req' = IF dict_manager.trained /\ dict_manager.dict_bytes # NoDict
                   THEN put_object(DictKey, dict_manager.dict_bytes)
                   ELSE dict_req
    /\ pc' = [pc EXCEPT !["fin"] = "finalized"]
    /\ UNCHANGED <<already_secured, started, seen_files, frame_queue, ledger,
                   pending_files, pending_frames, batch_size, batch_queue,
                   spill, in_final, loc, upc, ucur, stop, ready, enq, created,
                   op, faults>>
    /\ UNCHANGED <<min_training_samples, dict_manager, dict_trained,
                   training_samples, dict_start, train_log, used_dict,
                   upload_vars, flush_vars>>
    /\ UNCHANGED <<watch_vars, tar_vars, ctl_vars>>

\* start_pipeline: send_ready_to_terminate() after finalize has returned.
\* It runs on the event loop before the finally clause calls Pipeline.stop;
\* shutdown() calls Pipeline.stop and disconnects in one piece on the same
\* loop, after which send() sends nothing.
FinReady ==
    /\ pc["fin"] = "finalized"
    /\ stop = "none"
    /\ ready' = TRUE
    /\ pc' = [pc EXCEPT !["fin"] = "done"]
    /\ UNCHANGED <<already_secured, started, seen_files, frame_queue, ledger,
                   pending_files, pending_frames, batch_size, batch_queue,
                   spill, in_final, loc, upc, ucur, stop, enq, created, op,
                   faults>>
    /\ UNCHANGED <<dict_vars, upload_vars, flush_vars>>
    /\ UNCHANGED <<watch_vars, tar_vars, ctl_vars>>

\* ----------------------------------------------------------- Pipeline.stop
\* Pipeline.stop, called by start_pipeline's finally or by shutdown():
\* watcher.stop() and compressor.stop() set their events.
StopWorkers ==
    /\ started
    /\ stop = "none"
    /\ stop' = "compressor"
    /\ UNCHANGED <<already_secured, started, seen_files, frame_queue, ledger,
                   pending_files, pending_frames, batch_size, batch_queue,
                   spill, pc, in_final, loc, upc, ucur, ready, enq, created,
                   op, faults>>
    /\ UNCHANGED <<dict_vars, upload_vars, flush_vars>>
    /\ UNCHANGED <<watch_vars, tar_vars, ctl_vars>>

\* Pipeline.stop: the join of the Compressor thread returned (the thread
\* ended, or 10 s passed) and uploader.stop() sets its event.
StopUploader ==
    /\ stop = "compressor"
    /\ stop' = "all"
    /\ UNCHANGED <<already_secured, started, seen_files, frame_queue, ledger,
                   pending_files, pending_frames, batch_size, batch_queue,
                   spill, pc, in_final, loc, upc, ucur, ready, enq, created,
                   op, faults>>
    /\ UNCHANGED <<dict_vars, upload_vars, flush_vars>>
    /\ UNCHANGED <<watch_vars, tar_vars, ctl_vars>>

\* ---------------------------------------------------------------- Uploader
\* BatchUploader._run: batch_queue.get() gave a tuple.
UGet ==
    /\ upc = "idle"
    /\ stop # "all"
    /\ batch_queue # <<>>
    /\ ucur' = Head(batch_queue)
    /\ batch_queue' = Tail(batch_queue)
    /\ upc' = "put"
    /\ put_req' = NoRequest
    /\ UNCHANGED <<already_secured, started, seen_files, frame_queue, ledger,
                   pending_files, pending_frames, batch_size, spill, pc,
                   in_final, loc, stop, ready, enq, created, op, faults>>
    /\ UNCHANGED <<dict_vars, spill_data, flush_vars>>
    /\ UNCHANGED <<watch_vars, tar_vars, ctl_vars>>

\* _upload_batch: read_bytes and put_object, then register_secured; any
\* exception goes to register_batch_failed.  read_bytes raises when the
\* spill file is not there.
UPut(outcome, dur) ==
    /\ upc = "put"
    /\ outcome # "ok" => Cardinality(faults) < MaxFaults
    /\ IF outcome = "put_error" \/ ucur.id \notin spill
       THEN /\ ledger' = register_batch_failed(ledger, ucur.id)
            /\ op' = <<"register_batch_failed", ucur.id>>
            /\ faults' = faults \cup {<<"put", ucur.id>>}
            /\ upc' = "idle"
            /\ ucur' = NoBatch
            /\ put_req' = IF ucur.id \in spill
                          THEN put_object(BatchKey(ucur.id), spill_data[ucur.id])
                          ELSE put_req
       ELSE /\ put_req' = put_object(BatchKey(ucur.id), spill_data[ucur.id])
            /\ ledger' = register_secured(ledger, ucur.id, BatchKey(ucur.id), dur)
            /\ op' = <<"register_secured", ucur.id>>
            /\ upc' = "head"
            /\ UNCHANGED <<faults, ucur>>
    /\ UNCHANGED <<already_secured, started, seen_files, frame_queue,
                   pending_files, pending_frames, batch_size, batch_queue,
                   spill, pc, in_final, loc, stop, ready, enq, created>>
    /\ UNCHANGED <<dict_vars, spill_data, flush_vars>>
    /\ UNCHANGED <<watch_vars, tar_vars, ctl_vars>>

\* _upload_batch after register_secured: head_object, _notify_secured and
\* unlink; an exception of head_object goes to register_batch_failed.
UHead(outcome) ==
    /\ upc = "head"
    /\ outcome # "ok" => Cardinality(faults) < MaxFaults
    /\ IF outcome = "head_error"
       THEN /\ ledger' = register_batch_failed(ledger, ucur.id)
            /\ op' = <<"register_batch_failed", ucur.id>>
            /\ faults' = faults \cup {<<"head", ucur.id>>}
            /\ UNCHANGED <<spill, spill_data>>
       ELSE /\ spill' = spill \ {ucur.id}
            /\ spill_data' = [b \in spill \ {ucur.id} |-> spill_data[b]]
            /\ UNCHANGED <<ledger, op, faults>>
    /\ upc' = "idle"
    /\ ucur' = NoBatch
    /\ UNCHANGED <<already_secured, started, seen_files, frame_queue,
                   pending_files, pending_frames, batch_size, batch_queue,
                   pc, in_final, loc, stop, ready, enq, created>>
    /\ UNCHANGED <<dict_vars, put_req, flush_vars>>
    /\ UNCHANGED <<watch_vars, tar_vars, ctl_vars>>

\* ------------------------------------------------------------ specification
Next ==
    \/ \E k \in 0 .. NumFiles : Start(1 .. k)
    \/ \E p \in 0 .. NumFiles, stable \in BOOLEAN :
           /\ \A q \in Files : q < p => q \in seen_files
           /\ OnFile(p, stable)
           /\ UNCHANGED watch_vars
    \/ CompLoop
    \/ CompStop
    \/ \E t \in Threads, o \in {"ok", "fail"} : CompressCopy(t, o)
    \/ \E t \in Threads : CompressClear(t)
    \/ \E t \in Threads : CreateStore(t)
    \/ \E t \in Threads, o \in {"ok", "compress_error", "write_error"} :
           CompressWrite(t, o)
    \/ \E t \in Threads, conn \in BOOLEAN : CompressNotify(t, conn)
    \/ \E t \in Threads : UpdateBatchSize(t)
    \/ FinFlush
    \/ \E timeout \in BOOLEAN : FinWait(timeout)
    \/ FinReady
    \/ StopWorkers
    \/ StopUploader
    \/ UGet
    \/ \E o \in {"ok", "put_error"}, dur \in Durations : UPut(o, dur)
    \/ \E o \in {"ok", "head_error"} : UHead(o)

Spec == Init /\ [][Next]_vars

\* ------------------------------------------- the pipeline and its dictionary
\* A Pipeline built without resume seed under a configuration whose training
\* threshold the run can reach, with no dictionary or with the dictionary of
\* a previous run.
InitDict ==
    /\ \E dm \in {ZstdDictManager, load_from_bytes(ZstdDictManager, ResumeDict)} :
           Pipeline({}, dm, DictThreshold, DEFAULT_TOTAL_FRAMES)
    /\ NoTar
    /\ Worker

\* The pipeline in an environment where the object store and the file system
\* raise nothing and every upload takes the same time; training may fail.
NextDict ==
    \/ \E k \in 0 .. NumFiles : Start(1 .. k)
    \/ \E p \in Files :
           /\ \A q \in Files : q < p => q \in seen_files
           /\ OnFile(p, TRUE)
           /\ UNCHANGED watch_vars
    \/ CompLoop
    \/ CompStop
    \/ \E t \in Threads, o \in {"ok", "fail"} : CompressCopy(t, o)
    \/ \E t \in Threads : CompressClear(t)
    \/ \E t \in Threads : CreateStore(t)
    \/ \E t \in Threads : CompressWrite(t, "ok")
    \/ \E t \in Threads, conn \in BOOLEAN : CompressNotify(t, conn)
    \/ \E t \in Threads : UpdateBatchSize(t)
    \/ FinFlush
    \/ \E timeout \in BOOLEAN : FinWait(timeout)
    \/ FinReady
    \/ StopWorkers
    \/ StopUploader
    \/ UGet
    \/ \E dur \in {d \in Durations : 0 < d /\ d < TARGET_UPLOAD_TIME} :
           UPut("ok", dur)
    \/ UHead("ok")

SpecDict == InitDict /\ [][NextDict]_vars

\* ------------------------------------------------------------ the Watcher
\* The Watcher alone: the scan at start and the live events, with every
\* sequence of sizes the polls can return; the Compressor empties the queue.
NextWatch ==
    \/ \E k \in 0 .. NumFiles : Start(1 .. k)
    \/ \E p \in 0 .. NumFiles, sizes \in PollSeqs :
           /\ \A q \in Files : q < p => q \in seen_files
           /\ LiveEvent(p, sizes)

SpecWatch == Init /\ [][NextWatch]_vars

\* ------------------------------------------------------ the worker process
\* WSClient.connect after an attempt or a connection has ended: the flag
\* is cleared and, while is_running, the attempt is counted and the wait
\* before the next one computed; else the loop ends.
after_attempt(w) ==
    IF w.is_running
    THEN [w EXCEPT !.is_authenticated = FALSE,
                   !.reconnect_attempts = @ + 1,
                   !.delay = Min(MaxReconnectDelay,
                                 RECONNECT_DELAY * (w.reconnect_attempts + 1)),
                   !.pc = "sleep"]
    ELSE [w EXCEPT !.is_authenticated = FALSE, !.pc = "done"]

\* shutdown() up to its wait for _blender_done_event.
shutdown_begin(v) ==
    [v EXCEPT !.shutdown_event = TRUE,
              !.shutdown_pc = IF @ = "none" THEN "waiting" ELSE @]

\* main up to ws_client.connect(): when Config.validate raises, main runs
\* shutdown() and returns 1; else the signal handlers are installed and
\* connect() starts.
MainConnect(valid) ==
    /\ vm.proc = "running"
    /\ ws.pc = "new"
    /\ IF valid
       THEN /\ ws' = [ws EXCEPT !.is_running = TRUE, !.pc = "dial"]
            /\ vm' = vm
       ELSE /\ ws' = [ws EXCEPT !.pc = "done"]
            /\ vm' = [vm EXCEPT !.shutdown_event = TRUE,
                                !.shutdown_pc = "done", !.proc = "exit1"]
    /\ UNCHANGED <<bake, resume, pipeline_vars, tar_vars>>

\* connect: websockets.connect(url) returns a connection or raises.
Dial(ok) ==
    /\ vm.proc = "running"
    /\ ws.pc = "dial"
    /\ IF ok
       THEN ws' = [ws EXCEPT !.open = TRUE, !.reconnect_attempts = 0,
                             !.pc = "auth"]
       ELSE /\ ws.is_running => ws.reconnect_attempts < MaxAttempts
            /\ ws' = after_attempt(ws)
    /\ UNCHANGED <<vm, bake, resume, pipeline_vars, tar_vars>>

\* authenticate and _wait_for_auth_response: AUTH_SUCCESS sets the flag
\* and calls on_authenticated, which creates a heartbeat_loop task;
\* AUTH_FAILED, another reply and the timeout return to connect, which goes
\* on to receive_loop; a closed connection raises.
Authenticate(outcome) ==
    /\ vm.proc = "running"
    /\ ws.pc = "auth"
    /\ IF outcome = "closed"
       THEN /\ ws.is_running => ws.reconnect_attempts < MaxAttempts
            /\ ws' = after_attempt(ws)
            /\ vm' = vm
       ELSE /\ outcome = "AUTH_SUCCESS" => vm.heartbeats < MaxHeartbeats
            /\ ws' = [ws EXCEPT !.is_authenticated = (outcome = "AUTH_SUCCESS"),
                                !.pc = "recv"]
            /\ vm' = IF outcome = "AUTH_SUCCESS"
                     THEN [vm EXCEPT !.heartbeats = @ + 1] ELSE vm
    /\ UNCHANGED <<bake, resume, pipeline_vars, tar_vars>>

\* heartbeat_loop: a task finds shutdown_event set and ends.
HeartbeatEnd ==
    /\ vm.proc = "running"
    /\ vm.shutdown_event
    /\ vm.heartbeats > 0
    /\ vm' = [vm EXCEPT !.heartbeats = @ - 1]
    /\ UNCHANGED <<ws, bake, resume, pipeline_vars, tar_vars>>

\* receive_loop: one message handled by handle_message and on_message.
\* TERMINATE clears is_running and runs shutdown(); BLEND_FILE_URL
\* downloads the file and creates the start_pipeline task.
Receive(msg) ==
    /\ vm.proc = "running"
    /\ ws.pc = "recv"
    /\ ws.is_running
    /\ ws' = IF msg = "TERMINATE" THEN [ws EXCEPT !.is_running = FALSE] ELSE ws
    /\ vm' = IF msg = "S3_CREDENTIALS" THEN [vm EXCEPT !.s3_credentials = TRUE]
             ELSE IF msg = "BLEND_FILE_URL"
                  THEN [vm EXCEPT !.task = IF @ = "none" THEN "scheduled" ELSE @]
                  ELSE [shutdown_begin(vm) EXCEPT !.terminate = TRUE]
    /\ UNCHANGED <<bake, resume, pipeline_vars, tar_vars>>

\* receive_loop ends: the connection is closed, or is_running is false
\* (after TERMINATE, once the shutdown() awaited by on_message has returned).
ReceiveEnd ==
    /\ vm.proc = "running"
    /\ ws.pc = "recv"
    /\ ~ (vm.terminate /\ vm.shutdown_pc = "waiting")
    /\ ws.is_running => ws.reconnect_attempts < MaxAttempts
    /\ ws' = after_attempt(ws)
    /\ UNCHANGED <<vm, bake, resume, pipeline_vars, tar_vars>>

\* connect: asyncio.sleep(delay) returns and the loop tests is_running.
Wake ==
    /\ vm.proc = "running"
    /\ ws.pc = "sleep"
    /\ ws' = [ws EXCEPT !.pc = IF ws.is_running THEN "dial" ELSE "done"]
    /\ UNCHANGED <<vm, bake, resume, pipeline_vars, tar_vars>>

\* start_pipeline up to pipeline.start(): without credentials it sets
\* _blender_done_event and returns.
StartPipeline ==
    /\ vm.proc = "running"
    /\ vm.task = "scheduled"
    /\ vm' = IF ~ vm.s3_credentials
             THEN [vm EXCEPT !.task = "ran", !.blender_done = TRUE,
                             !.no_credentials = TRUE]
             ELSE [vm EXCEPT !.task = "ran", !.pipeline = "running"]
    /\ UNCHANGED <<ws, bake, resume, pipeline_vars, tar_vars>>

\* start_pipeline from the return of Blender to its finally clause.
PipelineEnd ==
    /\ vm.proc = "running"
    /\ vm.pipeline \in {"running", "stopped"}
    /\ ~ vm.blender_done
    /\ vm' = [vm EXCEPT !.blender_done = TRUE,
                        !.pipeline = IF @ = "running" THEN "finished" ELSE @]
    /\ UNCHANGED <<ws, bake, resume, pipeline_vars, tar_vars>>

\* SIGINT or SIGTERM reaches the worker: the handler main installed creates
\* a shutdown() task.
Signal ==
    /\ vm.proc = "running"
    /\ ws.pc # "new"
    /\ vm.signals < MaxSignals
    /\ vm' = [shutdown_begin(vm) EXCEPT !.signals = @ + 1]
    /\ UNCHANGED <<ws, bake, resume, pipeline_vars, tar_vars>>

\* shutdown() after its wait (the event is set, or 60 s have passed):
\* pipeline.stop(), heartbeat_task.cancel() on the task created last, and
\* ws_client.disconnect().
ShutdownStop ==
    /\ vm.proc = "running"
    /\ vm.shutdown_pc = "waiting"
    /\ vm' = [vm EXCEPT !.shutdown_pc = "done",
                        !.pipeline = IF @ = "running" THEN "stopped" ELSE @,
                        !.heartbeats = IF @ > 0 THEN @ - 1 ELSE @]
    /\ ws' = [ws EXCEPT !.is_running = FALSE]
    /\ UNCHANGED <<bake, resume, pipeline_vars, tar_vars>>

\* main: connect() has returned, shutdown_event is set, main returns 0.
MainReturn ==
    /\ vm.proc = "running"
    /\ ws.pc = "done"
    /\ vm.shutdown_event
    /\ vm' = [vm EXCEPT !.proc = "exit0"]
    /\ UNCHANGED <<ws, bake, resume, pipeline_vars, tar_vars>>

\* bake_all._signal_handler: the count is stepped and the third signal
\* calls sys.exit(1).
BakeSignal ==
    /\ ~ bake.exited
    /\ bake.interrupt_count < MaxSignals
    /\ bake' = [interrupted |-> TRUE,
                interrupt_count |-> bake.interrupt_count + 1,
                exited |-> bake.interrupt_count + 1 >= ForceExitCount]
    /\ UNCHANGED <<ws, vm, resume, pipeline_vars, tar_vars>>

InitCtl ==
    /\ Pipeline({}, ZstdDictManager, ZSTD_MIN_TRAINING_SAMPLES,
                DEFAULT_TOTAL_FRAMES)
    /\ NoTar
    /\ Worker

NextCtl ==
    \/ \E valid \in BOOLEAN : MainConnect(valid)
    \/ \E ok \in BOOLEAN : Dial(ok)
    \/ \E o \in {"AUTH_SUCCESS", "AUTH_FAILED", "closed"} : Authenticate(o)
    \/ \E m \in {"S3_CREDENTIALS", "BLEND_FILE_URL", "TERMINATE"} : Receive(m)
    \/ ReceiveEnd
    \/ HeartbeatEnd
    \/ Wake
    \/ StartPipeline
    \/ PipelineEnd
    \/ Signal
    \/ ShutdownStop
    \/ MainReturn
    \/ BakeSignal

SpecCtl == InitCtl /\ [][NextCtl]_vars

\* ---------------------------------------------------- resuming a run
\* The objects cacheBatches can name: what get_object and decompress_batch
\* do for it, and its 'frames' metadata.
Objects ==
    [outcome : {"ok", "get_error", "decompress_error"}, frames : MetaStrings]

ResumeInputs == UNION {[1 .. n -> Objects] : n \in 0 .. MaxKeys}

\* download_batches: one turn of the loop over batch_keys.  An exception of
\* get_object or decompress_batch is logged and the loop goes on.
DownloadBatch ==
    /\ resume.pc = "loop"
    /\ resume.i <= Len(resume.objects)
    /\ resume' = [resume EXCEPT
                     !.i = @ + 1,
                     !.restored =
                         IF resume.objects[resume.i].outcome = "ok"
                         THEN @ \cup MetadataFrames(resume.objects[resume.i].frames)
                         ELSE @]
    /\ UNCHANGED <<ws, vm, bake, pipeline_vars, tar_vars>>

\* download_batches returns restored_frames.
DownloadReturn ==
    /\ resume.pc = "loop"
    /\ resume.i > Len(resume.objects)
    /\ resume' = [resume EXCEPT !.pc = "returned"]
    /\ UNCHANGED <<ws, vm, bake, pipeline_vars, tar_vars>>

\* start_pipeline: already_secured.update(restored) and Pipeline(...), whose
\* ledger and Watcher take already_secured.
SeedPipeline ==
    /\ resume.pc = "returned"
    /\ resume' = [resume EXCEPT !.pc = "seeded"]
    /\ already_secured' = resume.secured_frames \cup resume.restored
    /\ ledger' = ProgressTracker(ledger.total_frames, already_secured')
    /\ UNCHANGED <<started, seen_files, frame_queue, pending_files,
                   pending_frames, batch_size, batch_queue, spill, pc,
                   in_final, loc, upc, ucur, stop, ready, enq, created, op,
                   faults, dict_vars, upload_vars, flush_vars, watch_vars>>
    /\ UNCHANGED <<ws, vm, bake, tar_vars>>

\* start_pipeline with a RESUME_INFO naming up to MaxKeys objects, at the
\* call of download_batches.
InitResume ==
    /\ Pipeline({}, ZstdDictManager, ZSTD_MIN_TRAINING_SAMPLES,
                DEFAULT_TOTAL_FRAMES)
    /\ NoTar
    /\ ws = WSClient
    /\ vm = VmMain
    /\ bake = BakeAll
    /\ \E objs \in ResumeInputs, sf \in Seeds :
           resume = [pc |-> "loop", objects |-> objs, i |-> 1,
                     restored |-> {}, secured_frames |-> sf]

NextResume == DownloadBatch \/ DownloadReturn \/ SeedPipeline

SpecResume == InitResume /\ [][NextResume]_vars

\* The keys of cacheBatches: the objects are the batches an earlier run of
\* the worker secured under the same cachePrefix, with the ids its ledger
\* allocated.
CacheKeys == {BatchKey(i) : i \in DOMAIN resume.objects}

\* start_pipeline with a RESUME_INFO whose objects are all there, each
\* restoring one frame.
InitRerun ==
    /\ Pipeline({}, ZstdDictManager, ZSTD_MIN_TRAINING_SAMPLES,
                DEFAULT_TOTAL_FRAMES)
    /\ NoTar
    /\ ws = WSClient
    /\ vm = VmMain
    /\ bake = BakeAll
    /\ \E objs \in {o \in ResumeInputs :
                        \A i \in DOMAIN o : /\ o[i].outcome = "ok"
                                             /\ o[i].frames \in {<<"1">>, <<"2">>}},
          sf \in Seeds :
           resume = [pc |-> "loop", objects |-> objs, i |-> 1,
                     restored |-> {}, secured_frames |-> sf]

\* The restoration, then the run of the pipeline it seeded.
NextRerun ==
    \/ NextResume
    \/ resume.pc = "seeded" /\ NextDict

SpecRerun == InitRerun /\ [][NextRerun]_vars

\* ------------------------------------------------------- the ledger alone
\* What no call on the ledger changes.
ledger_rest ==
    <<already_secured, started, seen_files, frame_queue, pending_files,
      pending_frames, batch_size, batch_queue, spill, pc, in_final, loc, upc,
      ucur, stop, ready, enq, faults, dict_vars, upload_vars, flush_vars,
      watch_vars, tar_vars, ctl_vars>>

\* The frame lists and the sizes the callers of the model pass.
FrameLists == {<<1>>, <<2>>, <<1, 2>>}

Sizes == {<<1, 4>>, <<2, 4>>}

\* ProgressTracker.create_batch(frames)
LedgerCreate(frames) ==
    /\ ledger.next_batch_id <= MaxBatches
    /\ ledger' = create_batch_store(ledger, ledger.next_batch_id, frames)
    /\ created' = Append(created, ledger.next_batch_id)
    /\ op' = <<"create_batch", ledger.next_batch_id>>
    /\ UNCHANGED ledger_rest

\* ProgressTracker.register_compressed(id, csize, rsize)
LedgerCompressed(id, csize, rsize) ==
    /\ ledger' = register_compressed(ledger, id, csize, rsize)
    /\ op' = <<"register_compressed", id>>
    /\ UNCHANGED <<created, ledger_rest>>

\* ProgressTracker.register_secured(id, key, dur)
LedgerSecured(id, dur) ==
    /\ ledger' = register_secured(ledger, id, BatchKey(id), dur)
    /\ op' = <<"register_secured", id>>
    /\ UNCHANGED <<created, ledger_rest>>

\* ProgressTracker.register_batch_failed(id)
LedgerFailed(id) ==
    /\ ledger' = register_batch_failed(ledger, id)
    /\ op' = <<"register_batch_failed", id>>
    /\ UNCHANGED <<created, ledger_rest>>

\* Any sequence of calls of the four mutators, on ids that exist or not.
NextLedger ==
    \/ \E frames \in FrameLists : LedgerCreate(frames)
    \/ \E id \in 1 .. MaxBatches + 1, sz \in Sizes :
           LedgerCompressed(id, sz[1], sz[2])
    \/ \E id \in 1 .. MaxBatches + 1, dur \in Durations : LedgerSecured(id, dur)
    \/ \E id \in 1 .. MaxBatches + 1 : LedgerFailed(id)

SpecLedger == Init /\ [][NextLedger]_vars

\* ------------------------------------------------- the percent accessors
\* The totalFrames a coordinator can send in RESUME_INFO, and the default.
TotalFramesValues == {-1, 0, 1, 2, DEFAULT_TOTAL_FRAMES}

\* A Pipeline built for any of these totals, with one of the resume seeds.
InitPercent ==
    /\ \E seed \in Seeds, total \in TotalFramesValues :
           Pipeline(seed, ZstdDictManager, ZSTD_MIN_TRAINING_SAMPLES, total)
    /\ NoTar
    /\ Worker

SpecPercent == InitPercent /\ [][NextDict]_vars

\* ------------------------------------------------------- the archive round
\* The relative paths str(f.relative_to(cache_dir)) yields for files under
\* cache_dir: no empty component and no component '.' or '..'.
LegalRelative(name) ==
    \A c \in Range(Split(name)) : c # <<>> /\ c # <<".">> /\ c # <<".", ".">>

\* One path is a directory on the way to the other.
IsAncestor(a, b) ==
    /\ Len(Split(a)) < Len(Split(b))
    /\ SubSeq(Split(b), 1, Len(Split(a))) = Split(a)

\* The lists of artifact files a cache directory can hold: distinct legal
\* paths, none a directory of another.
ArtifactLists ==
    LET legal == [name : {n \in Names : LegalRelative(n)}, data : {1, 2}]
        lists == UNION {[1 .. n -> legal] : n \in 1 .. MaxMembers}
    IN {fs \in lists : \A i, j \in DOMAIN fs :
           i # j => /\ fs[i].name # fs[j].name
                    /\ ~ IsAncestor(fs[i].name, fs[j].name)}

\* The batches a store can return to resume: any members under any names,
\* compressed without a dictionary or with the previous run's.
Archives ==
    [kind : {"zstd"},
     tar : UNION {[1 .. n -> [name : Names, type : {"file", "symlink"},
                               data : {1}]] : n \in 0 .. MaxMembers},
     dict : {NoDict, ResumeDict}]

\* The pipeline is built and idle; a list of artifacts is about to be
\* compressed, or a downloaded batch is about to be decompressed.
InitTar ==
    /\ Pipeline({}, ZstdDictManager, ZSTD_MIN_TRAINING_SAMPLES,
                DEFAULT_TOTAL_FRAMES)
    /\ tar_dm \in {ZstdDictManager, load_from_bytes(ZstdDictManager, ResumeDict)}
    /\ tar_out = NoOutput
    /\ Worker
    /\ \/ /\ tar_pc = "files"
          /\ tar_files \in ArtifactLists
          /\ tar_blob = NoDict
       \/ /\ tar_pc = "blob"
          /\ tar_files = <<>>
          /\ tar_blob \in Archives

\* compress_batch(files, cache_dir, dict_manager)
TarCompress ==
    /\ tar_pc = "files"
    /\ tar_blob' = compress_batch(tar_files, tar_dm)
    /\ tar_pc' = "blob"
    /\ UNCHANGED <<tar_files, tar_dm, tar_out, pipeline_vars, ctl_vars>>

\* decompress_batch(data, output_dir, dict_manager); it raises when the
\* data does not decode.
TarDecompress ==
    /\ tar_pc = "blob"
    /\ IF Decodes(tar_blob, tar_dm)
       THEN /\ tar_out' = decompress_batch(tar_blob, tar_dm)
            /\ tar_pc' = "done"
       ELSE /\ tar_pc' = "error"
            /\ UNCHANGED tar_out
    /\ UNCHANGED <<tar_files, tar_dm, tar_blob, pipeline_vars, ctl_vars>>

NextTar == TarCompress \/ TarDecompress

SpecTar == InitTar /\ [][NextTar]_vars

\* ----------------------------------------------------------------- claims
Batches == DOMAIN ledger.batches

Status(b) == ledger.batches[b].status

Frames(b) == Range(ledger.batches[b].frames)

\* C1: in every reachable state Secured is a subset of Compressed and
\* Compressed is a subset of Baked.
C1_SetInclusion ==
    /\ ledger.secured_frames \subseteq ledger.compressed_frames
    /\ ledger.compressed_frames \subseteq ledger.baked_frames

\* C2: in every reachable state Secured is the resume seed united with the
\* frames of the batches whose status is confirmed.
C2_SecuredIsSeedAndConfirmed ==
    ledger.secured_frames =
        already_secured \cup
        UNION {Frames(b) : b \in {c \in Batches : Status(c) = "confirmed"}}

\* C3: a batch whose status is confirmed keeps that status at every later
\* step of the pipeline.
C3_ConfirmedIsTerminal ==
    [][\A b \in Batches :
          Status(b) = "confirmed" => ledger'.batches[b].status = "confirmed"]_vars

\* C4: the ids create_batch returns start at 1 and are strictly increasing
\* in the order of the calls, so none is used twice.
C4_MonotonicIds ==
    /\ created # <<>> => created[1] = 1
    /\ \A i, j \in DOMAIN created : i < j => created[i] < created[j]

\* The Uploader's step in which read_bytes or put_object raised.
PutFailed == upc = "put" /\ upc' = "idle"

\* Nothing is in flight: both queues and the pending list are empty and no
\* thread is inside _compress_batch or _upload_batch.
RunComplete ==
    /\ started
    /\ frame_queue = <<>>
    /\ pending_files = <<>>
    /\ batch_queue = <<>>
    /\ upc = "idle"
    /\ \A t \in Threads : pc[t] \in {"loop", "exit", "blender", "drain",
                                     "finalized", "done", "raised"}

\* The run's only exception was raised by the upload of batch b, every id
\* was given out once, and no other batch covers a frame of b.
OnlyUploadFailure(b) ==
    /\ faults = {<<"put", b>>}
    /\ \A i, j \in DOMAIN created : i # j => created[i] # created[j]
    /\ \A a \in Batches \ {b} : Frames(a) \cap Frames(b) = {}

C6_CompressionFailureDrops ==
    \A b \in Batches :
        (<<"compress", b>> \in faults \/ <<"write", b>> \in faults) =>
            /\ Status(b) = "failed"
            /\ Frames(b) \cap ledger.compressed_frames = {}
            /\ \A i \in DOMAIN batch_queue : batch_queue[i].id # b

\* C7: right after register_batch_failed(id) on an existing batch, the
\* batch is failed and none of its frames is in Compressed.
C7_FailureRollback ==
    (op[1] = "register_batch_failed" /\ op[2] \in Batches) =>
        /\ Status(op[2]) = "failed"
        /\ Frames(op[2]) \cap ledger.compressed_frames = {}

\* register_batch_failed has just run on a batch that covers frames.
C7_Witness ==
    /\ op[1] = "register_batch_failed"
    /\ op[2] \in Batches
    /\ Frames(op[2]) # {}

\* C8: every path is put on the Compressor's inbound queue at most once.
C8_Deduplication == \A p \in Files : enq[p] <= 1

\* A path was put once, has left the queue, and events for it still come.
C8_Witness ==
    /\ stop = "none"
    /\ \E p \in Files : enq[p] = 1 /\ p \notin Range(frame_queue)

\* C9: no artifact of a frame of already_secured is ever enqueued, while
\* its frame is recorded as Baked; no batch of this run covers such a frame.
C9_ResumeSkip ==
    /\ \A p \in seen_files :
          extract_frame_number(p) \in already_secured =>
              /\ enq[p] = 0
              /\ extract_frame_number(p) \in ledger.baked_frames
    /\ \A b \in Batches : Frames(b) \cap already_secured = {}
    /\ ledger.compressed_frames \cap already_secured = {}

\* The Watcher has seen an artifact of a seeded frame, and a batch of the
\* other frames is confirmed.
C9_Witness ==
    /\ \E p \in seen_files : extract_frame_number(p) \in already_secured
    /\ \E b \in Batches : Status(b) = "confirmed" /\ Frames(b) # {}

\* C10: whenever the running Compressor loop decides to close a batch, the
\* pending list holds exactly batch_size artifacts.
C10_ExactBatchSize ==
    [][(pc["comp"] = "loop" /\ pc'["comp"] = "copy" /\ ~ in_final') =>
          Len(pending_files') = batch_size]_vars

\* The step in which thread t returns from update_batch_size.
UpdateStep(t) == pc[t] = "update" /\ pc'[t] # "update"

\* The batches update_batch_size averages over.
ConfirmedWithFrames ==
    {b \in Batches : Status(b) = "confirmed" /\ Len(ledger.batches[b].frames) > 0}

\* speed * TARGET_UPLOAD_TIME / (mean raw bytes per frame / ratio) as the
\* fraction <<num, den>>, from the ledger's scalars and confirmed batches.
TargetSize ==
    LET sum == RawPerFrameSum(ledger.batches, ConfirmedWithFrames)
    IN <<ledger.upload_speed_bps[1] * TARGET_UPLOAD_TIME
             * ledger.compression_ratio[1] * sum[2]
             * Cardinality(ConfirmedWithFrames),
         ledger.upload_speed_bps[2] * ledger.compression_ratio[2] * sum[1]>>

\* n is the fraction f truncated to an integer and clamped to
\* [MIN_BATCH_SIZE, MAX_BATCH_SIZE].
IsClampedTarget(n, f) ==
    /\ n \in MIN_BATCH_SIZE .. MAX_BATCH_SIZE
    /\ n > MIN_BATCH_SIZE => n * f[2] <= f[1]
    /\ n < MAX_BATCH_SIZE => f[1] < (n + 1) * f[2]

\* Scenario S2: one confirmed batch with 200,000 raw bytes per frame, upload
\* speed 1,000,000 B/s and compression ratio 4.
S2Ledger ==
    [ProgressTracker(DEFAULT_TOTAL_FRAMES, {}) EXCEPT
        !.batches = (1 :> [BatchInfo(<<1>>) EXCEPT !.raw_size = 200000,
                                                   !.status = "confirmed"]),
        !.upload_speed_bps = <<1000000, 1>>]

TargetDefined ==
    /\ ConfirmedWithFrames # {}
    /\ ledger.upload_speed_bps[1] > 0
    /\ ledger.compression_ratio[1] > 0
    /\ RawPerFrameSum(ledger.batches, ConfirmedWithFrames)[1] > 0

C12_DictionaryImmutable ==
    [][dict_manager.trained => dict_manager' = dict_manager]_vars

\* C13: no call of train() follows a call that failed, and at most one call
\* is made in a run.
C13_NoRetraining ==
    /\ \A i \in DOMAIN train_log :
           train_log[i] = "fail" => i = Len(train_log)
    /\ Len(train_log) <= 1

\* C14: in a run that starts without a dictionary, as long as fewer
\* artifacts than the training threshold have been observed, the dictionary
\* is untrained, train() has not been called, no batch has been compressed
\* with a dictionary and no dictionary has been uploaded.
C14_NoDictionaryBelowThreshold ==
    (~ dict_start.trained /\ Cardinality(seen_files) < min_training_samples) =>
        /\ ~ dict_manager.trained
        /\ train_log = <<>>
        /\ used_dict = {}
        /\ \A b \in spill : spill_data[b].dict = NoDict
        /\ dict_req = NoRequest

\* A run that started without a dictionary, saw one artifact, uploaded it
\* in a confirmed batch and has gone through finalize.
C14_Witness ==
    /\ ~ dict_start.trained
    /\ Cardinality(seen_files) = 1
    /\ Cardinality(seen_files) < min_training_samples
    /\ \E b \in Batches : Status(b) = "confirmed"
    /\ pc["fin"] = "done"

\* C15: compress_batch followed by decompress_batch with the same
\* dictionary succeeds and leaves exactly the artifacts given: the same
\* relative paths, each with the same bytes, whatever the legal paths.
C15_RoundTrip ==
    tar_files # <<>> =>
        /\ tar_pc # "error"
        /\ tar_pc = "done" =>
              /\ Range(tar_out.extracted) = {f.name : f \in Range(tar_files)}
              /\ {[name |-> w.name, data |-> w.data] : w \in tar_out.written}
                     = Range(tar_files)
              /\ \A w \in tar_out.written :
                     w.at = [inside |-> TRUE, path |-> Split(w.name)]

\* The member name contains '..' or starts with '/'.
UnsafeName(name) ==
    \/ \E i \in 1 .. Len(name) - 1 : SubSeq(name, i, i + 1) = <<".", ".">>
    \/ Head(name) = "/"

\* C16: after decompress_batch, no member whose name contains '..' or is
\* absolute has been extracted or has left a file, every file written is
\* inside the output directory, and every other regular member has been
\* extracted.
C16_NoTraversal ==
    tar_pc = "done" =>
        /\ \A n \in Range(tar_out.extracted) : ~ UnsafeName(n)
        /\ \A w \in tar_out.written : ~ UnsafeName(w.name) /\ w.at.inside
        /\ \A i \in DOMAIN tar_blob.tar :
               (tar_blob.tar[i].type = "file" /\ ~ UnsafeName(tar_blob.tar[i].name))
                   => /\ tar_blob.tar[i].name \in Range(tar_out.extracted)
                      /\ \E w \in tar_out.written :
                             w.at = Location(tar_blob.tar[i].name)

\* A downloaded batch with a member that climbs out of the output
\* directory and a safe regular member has been decompressed.
C16_Witness ==
    /\ tar_pc = "done"
    /\ \E i, j \in DOMAIN tar_blob.tar :
           /\ tar_blob.tar[i].type = "file"
           /\ ~ Location(tar_blob.tar[i].name).inside
           /\ tar_blob.tar[j].type = "file"
           /\ tar_blob.tar[j].name \in Range(tar_out.extracted)

\* The requests issued: the last batch PUT and the dictionary PUT.
Issued == {r \in {put_req, dict_req} : r # NoRequest}

\* C17: every PUT issued, for a batch and for the dictionary, carries as
\* body the bytes held in memory (the compressed batch, the dictionary
\* bytes), has Content-Length equal to the length of that body and is a
\* single request.
C17_ContentLengthExact ==
    /\ \A r \in Issued :
           /\ r.parts = 1
           /\ r.content_length = BytesLen(r.body)
           /\ r.content_length > 0
    /\ put_req # NoRequest =>
           /\ put_req.body.kind = "zstd"
           /\ \E i \in DOMAIN created : put_req.key = BatchKey(created[i])
    /\ dict_req # NoRequest =>
           /\ dict_req.key = DictKey
           /\ dict_req.body.kind = "dict"

\* A batch and then the dictionary have been PUT.
C17_Witness ==
    /\ put_req # NoRequest
    /\ dict_req # NoRequest
    /\ dict_req.content_length = 1 + DictThreshold

\* Thread t is inside create_batch: it has read _next_batch_id and has not
\* yet stored the batch and stepped the counter.
InCreateBatch(t) == pc[t] = "store"

\* C18: the ledger's mutators exclude one another: the Compressor thread
\* and the thread of finalize are never inside create_batch together, and
\* the ledger holds one batch for each create_batch call made, as after
\* the same calls in any serial order.
C18_MutatorsExclusive ==
    /\ ~ (InCreateBatch("comp") /\ InCreateBatch("fin"))
    /\ Cardinality(Batches) = Len(created)

\* finalize has returned: the flush, the wait for the batch queue and the
\* dictionary upload are behind.
FinalizeReturned == pc["fin"] \in {"finalized", "done"}

\* C19: the end of a run is ordered: READY_TO_TERMINATE is sent only once
\* finalize (flush, wait for the batch queue, dictionary upload) has
\* returned, and the workers are stopped only once READY_TO_TERMINATE has
\* been sent.
C19_EndOfRunOrder ==
    /\ ready => FinalizeReturned
    /\ stop # "none" => ready /\ FinalizeReturned

\* The batches put on batch_queue that hold exactly the files list fs.
HandedAs(fs) == {i \in DOMAIN handed : handed[i] = fs}

\* No thread is inside _compress_batch.
NoneCompressing ==
    \A t \in Threads : pc[t] \notin {"copy", "clear", "store", "compress",
                                     "notify", "update"}

\* C20: when the Compressor thread has exited after being stopped with a
\* non-empty pending list, that list has been compressed into exactly one
\* batch, which has been put on the Uploader's queue.
C20_FinalFlush ==
    (pc["comp"] = "exit" /\ final_pending # <<>> /\ NoneCompressing) =>
        Cardinality(HandedAs(final_pending)) = 1

\* C25: every batch with status confirmed has a non-empty object key and
\* an upload duration greater than zero.
C25_ConfirmedKeyAndDuration ==
    \A b \in Batches :
        Status(b) = "confirmed" =>
            /\ ledger.batches[b].r2_key # <<>>
            /\ ledger.batches[b].upload_duration > 0

\* The step in which the ledger records batch b as confirmed.
RecordsSecured(b) ==
    /\ b \in DOMAIN ledger'.batches
    /\ ledger'.batches[b].status = "confirmed"
    /\ b \in Batches => Status(b) # "confirmed"

\* C27: the Uploader records a batch as secured only in a step in which
\* its HEAD has returned, and deletes a spill file only of a batch the
\* ledger holds as confirmed.
C27_UploadOrder ==
    [][/\ \A b \in DOMAIN ledger'.batches :
              RecordsSecured(b) => upc = "head" /\ upc' # "head"
       /\ \A b \in spill \ spill' : b \in Batches /\ Status(b) = "confirmed"]_vars

\* A turn of the Compressor's loop that took files from frame_queue and
\* compared the length of the pending list with batch_size.
TestsBatchSize ==
    /\ pc["comp"] = "loop"
    /\ stop = "none"
    /\ frame_queue # <<>>
    /\ frame_queue' = <<>>

\* C28: when the Compressor decides whether to close a batch, batch_size is
\* the size that update_batch_size computes from the ledger as it is then,
\* with every confirmation recorded so far.
C28_SizedAfterConfirmation ==
    [][TestsBatchSize => batch_size = update_batch_size(ledger, batch_size)]_vars

\* C21: the work of the pipeline does not depend on the control channel
\* being connected: wherever a thread is about to test is_connected(), the
\* step it takes leaves the same queues, and raises or not, whether the
\* test returns true or false.
C21_ConnectionIndependent ==
    \A t \in Threads :
        pc[t] = "notify" => NotifyAndPut(t, TRUE) = NotifyAndPut(t, FALSE)

\* The fraction q is a number of [0, 100].
InPercentRange(q) == q[2] > 0 /\ 0 <= q[1] /\ q[1] <= 100 * q[2]

\* C26: baked_percent, compressed_percent and secured_percent are within
\* [0, 100] in every reachable state, whatever total_frames is (zero and
\* negative included) and also when a set holds more frames than
\* total_frames.
C26_PercentBounds ==
    /\ InPercentRange(baked_percent(ledger))
    /\ InPercentRange(compressed_percent(ledger))
    /\ InPercentRange(secured_percent(ledger))

\* More frames are baked, compressed and secured than total_frames counts.
C26_Witness ==
    /\ ledger.total_frames > 0
    /\ Cardinality(ledger.baked_frames) > ledger.total_frames
    /\ Cardinality(ledger.compressed_frames) > ledger.total_frames
    /\ Cardinality(ledger.secured_frames) > ledger.total_frames

\* Two consecutive polls returned the same positive size, none before
\* them having failed.
TwoEqualPositive(sizes) ==
    \E i \in 1 .. Len(sizes) - 1 :
        /\ sizes[i] = sizes[i + 1]
        /\ sizes[i] > 0
        /\ \A j \in 1 .. i + 1 : sizes[j] # StatError

\* C29: an artifact seen through a live event is enqueued only if two
\* consecutive size polls of the window returned the same positive size;
\* a file whose size differs at every poll, or is zero, or cannot be read,
\* is not enqueued.
C29_EnqueuedOnlyIfStable ==
    \A p \in Files :
        (polls[p] # <<>> /\ enq[p] > 0) => TwoEqualPositive(polls[p])

\* C30: a file dropped as non-stable that receives a further event while
\* it is stable has been put on the Compressor's queue.
C30_ReevaluatedOnNextEvent ==
    \A p \in restable : enq[p] > 0

\* C22: the client makes at most MAX_RECONNECT_ATTEMPTS reconnection
\* attempts after the connection is lost, and waits
\* min(30 s, RECONNECT_DELAY * attempt) before attempt number attempt.
C22_BoundedReconnect ==
    /\ ws.reconnect_attempts <= MAX_RECONNECT_ATTEMPTS
    /\ ws.pc = "sleep" =>
           /\ ws.delay <= MaxReconnectDelay
           /\ ws.delay <= RECONNECT_DELAY * ws.reconnect_attempts
           /\ \/ ws.delay = MaxReconnectDelay
              \/ ws.delay = RECONNECT_DELAY * ws.reconnect_attempts

\* C23: after the first and the second signal a process keeps running and
\* the worker's pipeline is not stopped; from the third signal on the
\* process has exited with a non-zero code.
C23_SignalEscalation ==
    /\ (vm.signals \in {1, 2} /\ ~ vm.terminate) =>
           vm.proc = "running" /\ vm.pipeline # "stopped"
    /\ vm.signals >= ForceExitCount => vm.proc = "exit1"
    /\ bake.interrupt_count \in {1, 2} => ~ bake.exited
    /\ bake.interrupt_count >= ForceExitCount => bake.exited

\* C24: once start_pipeline has returned for lack of S3 credentials, the
\* shutdown path has been started.
C24_NoCredentialsShutdown ==
    vm.no_credentials => vm.shutdown_pc # "none"

\* The artifacts of frame f that the Watcher has met.
SeenOf(f) == {p \in seen_files : extract_frame_number(p) = f}

\* Path p went through _wait_stable at a live event and was dropped.
DroppedUnstable(p) == polls[p] # <<>> /\ ~ wait_stable(polls[p])

\* C31: a frame all of whose observed artifacts were dropped by the
\* stability check of a live event is not in Baked.
C31_BakedOnlyIfStable ==
    \A f \in {extract_frame_number(p) : p \in Files} :
        (SeenOf(f) # {} /\ \A p \in SeenOf(f) : DroppedUnstable(p)) =>
            f \notin ledger.baked_frames

\* The status changes of the batch state machine.
Allowed ==
    {<<"compressing", "uploading">>, <<"uploading", "confirmed">>,
     <<"compressing", "failed">>, <<"uploading", "failed">>}

\* C32: every call that changes a batch of the ledger moves its status along
\* compressing -> uploading -> confirmed, or to failed from compressing or
\* uploading; a call on a batch in another status changes nothing of it.
C32_StatusStateMachine ==
    [][\A b \in DOMAIN ledger.batches :
           ledger'.batches[b] # ledger.batches[b] =>
               <<ledger.batches[b].status, ledger'.batches[b].status>> \in Allowed]_vars

\* The spans of digits of str that, with the blanks around them, fill the
\* room between two commas or an end of str.
EntriesOf(str) ==
    {e \in (DOMAIN str) \X (DOMAIN str) :
        /\ e[1] <= e[2]
        /\ \A k \in e[1] .. e[2] : IsDigit(str[k])
        /\ \E a \in 1 .. e[1], b \in e[2] .. Len(str) :
               /\ a = 1 \/ str[a - 1] = ","
               /\ b = Len(str) \/ str[b + 1] = ","
               /\ \A k \in (a .. e[1] - 1) \cup (e[2] + 1 .. b) : str[k] = " "}

RECURSIVE Pow10(_)
Pow10(k) == IF k = 0 THEN 1 ELSE 10 * Pow10(k - 1)

\* The number the decimal digits str[c..d] write.
RECURSIVE Decimal(_, _, _)
Decimal(str, c, d) ==
    IF c > d THEN 0
    ELSE Digit(str[c]) * Pow10(d - c) + Decimal(str, c + 1, d)

\* The frames the objects downloaded and extracted without error name.
Restorable ==
    UNION {{Decimal(resume.objects[i].frames, e[1], e[2]) :
               e \in EntriesOf(resume.objects[i].frames)} :
           i \in {j \in DOMAIN resume.objects :
                     resume.objects[j].outcome = "ok"}}

\* C33: download_batches returns exactly the frames named by the integer
\* entries of the metadata of the objects it downloaded and extracted, and
\* the ledger and the Watcher are seeded with them and the coordinator's
\* securedFrames.
C33_RestoredFrames ==
    /\ resume.pc \in {"returned", "seeded"} => resume.restored = Restorable
    /\ resume.pc = "seeded" =>
           /\ ledger.secured_frames = resume.secured_frames \cup Restorable
           /\ already_secured = resume.secured_frames \cup Restorable

\* A failed object is followed by one whose metadata has a malformed entry
\* and a padded one.
C33_Witness ==
    /\ resume.pc = "seeded"
    /\ Len(resume.objects) = 2
    /\ resume.objects[1] = [outcome |-> "decompress_error", frames |-> <<"2">>]
    /\ resume.objects[2] = [outcome |-> "ok", frames |-> <<",", " ", "1">>]
    /\ resume.secured_frames = {2}
    /\ ledger.secured_frames = {1, 2}

\* C34: no PUT of the run that resumed goes to a key listed in cacheBatches.
C34_NoOverwriteAfterResume ==
    put_req # NoRequest => put_req.key \notin CacheKeys

\* Path p was put on the queue and is in no batch yet: it is still on the
\* queue or in the Compressor's pending list.
AwaitsBatch(p) ==
    enq[p] > 0 /\ p \in Range(frame_queue) \cup Range(pending_files)

\* C35: a frame secured by this run has all the artifacts the Watcher
\* queued for it in confirmed batches; in particular none of them is still
\* waiting to be put in a batch.
C35_SecuredFrameIsWhole ==
    \A f \in ledger.secured_frames \ already_secured :
        \A p \in Files : extract_frame_number(p) = f => ~ AwaitsBatch(p)

\* The threads whose _compress_batch holds a batch not yet on batch_queue.
Forming == {t \in Threads : pc[t] \in {"clear", "store", "compress", "notify"}}

\* The number of batches that hold path p.
BatchCount(p) ==
    Cardinality({i \in DOMAIN handed : p \in Range(handed[i])})
    + Cardinality({t \in Forming : p \in Range(loc[t].files)})

\* The Compressor thread has ended and nobody will make another batch.
CompressorOver ==
    pc["comp"] = "exit" /\ pc["fin"] # "blender" /\ NoneCompressing

\* C36: a path put on the Watcher's queue is never in two batches; once the
\* Compressor is over it is in one; and the frame list of a batch being
\* formed is the frame numbers of its files.
C36_ExactlyOneBatch ==
    /\ \A p \in Files : BatchCount(p) <= 1
    /\ CompressorOver => \A p \in Files : enq[p] > 0 => BatchCount(p) = 1
    /\ \A t \in Forming : loc[t].frames = FramesOf(loc[t].files)

\* Batch b is held by a thread that can still move it: one inside
\* _compress_batch past create_batch, the Uploader inside _upload_batch, or
\* the batch queue while the Uploader still reads it.
InFlight(b) ==
    \/ \E t \in Threads : pc[t] \in {"compress", "notify"} /\ loc[t].id = b
    \/ upc \in {"put", "head"} /\ ucur.id = b
    \/ stop # "all" /\ \E i \in DOMAIN batch_queue : batch_queue[i].id = b

\* C37: no batch is left in compressing or uploading with nothing that can
\* move it on: a batch in one of these statuses is in flight.
C37_NoBatchStuck ==
    \A b \in Batches : Status(b) \in {"compressing", "uploading"} => InFlight(b)

\* Everything the Watcher emitted is confirmed or failed.
AllSettled ==
    /\ \A b \in Batches : Status(b) \notin {"compressing", "uploading"}
    /\ upc # "put" /\ upc # "head"
    /\ frame_queue = <<>>
    /\ pending_files = <<>>

\* C38: the step that sends READY_TO_TERMINATE is taken in a state where no
\* batch is compressing or uploading, no upload is in progress and the
\* inbound queue and the pending list are empty.
C38_ReadyWhenSettled == [][(~ ready /\ ready') => AllSettled]_vars

\* A message of the connection is acted upon: credentials are stored, the
\* start of the pipeline is scheduled, or the termination is begun.
ActsOnMessage ==
    \/ ~ vm.s3_credentials /\ vm'.s3_credentials
    \/ vm.task = "none" /\ vm'.task = "scheduled"
    \/ ~ vm.terminate /\ vm'.terminate

\* C39: a message is acted upon only on a connection on which AUTH_SUCCESS
\* was received.
C39_ActedOnlyIfAuthenticated == [][ActsOnMessage => ws.is_authenticated]_vars

\* C40: at most one heartbeat_loop task runs at any time.
C40_OneHeartbeat == vm.heartbeats <= 1

====
